---- MODULE Spec2Model ----
(***************************************************************************)
(* Model of the traffic selector controller (rollout/service.go) and of    *)
(* the Datadog metric provider (metricproviders/datadog/datadog.go and its *)
(* earlier revision) of argo-rollouts.                                     *)
(***************************************************************************)
EXTENDS Integers, Sequences, FiniteSets, TLC

VARIABLES
    selector,   \* [Services -> selector state]: the in-memory *corev1.Service objects
    rollout,    \* the rollout: its strategy, service names, status read by a pass
    olderRSs,   \* roCtx.OlderRSs(): the older replica sets of the rollout
    last,       \* what the last operation read, called and returned
    prev,       \* the value of last before the last direct switchServiceSelector call
    impl,       \* the revision of the Datadog provider: "current" or "earlier"
    pc,         \* "idle", or "resume": inside Resume, at the head of its loop
    call,       \* the provider method called last
    retries,    \* Resume's loop counter
    measurement, \* Resume's variable measurement; the Measurement last returned
    attempts,   \* the queries of the call: what each saw and produced
    outcome,    \* how the call ended: "returned", "panic", or "none"
    terminated, \* the Terminate call made in the last step, if any
    now         \* the clock, in seconds

trafficvars == <<selector, rollout, olderRSs, last, prev>>
ddvars == <<impl, pc, call, retries, measurement, attempts, outcome, terminated, now>>
vars == <<selector, rollout, olderRSs, last, prev,
          impl, pc, call, retries, measurement, attempts, outcome, terminated, now>>

----------------------------------------------------------------------------
(* Bounds *)

\* number of older replica sets in the snapshot of one pass
MaxOlder == 3
\* revision numbers range over 0..MaxRevision (0: GetReplicaSetRevision found none)
MaxRevision == 3
\* data points in one series of a query response
MaxPoints == 3
\* the clock runs from 0 to MaxClock
MaxClock == 2
\* queries followed within one provider call
MaxAttempts == 5

----------------------------------------------------------------------------
(* Services, selectors, replica sets *)

Services == {"preview", "active", "stable", "canary"}

\* service.Spec.Selector == nil
NilSelector == "<nil>"
\* a non-nil selector map without v1alpha1.DefaultRolloutUniqueLabelKey
NoKey == "<no key>"

\* newRS.Labels[DefaultRolloutUniqueLabelKey]
NewRSHash == "rev-B"
\* rs.Labels[DefaultRolloutUniqueLabelKey] of the i-th older replica set
OlderHash(i) == IF i = 1 THEN "rev-A" ELSE "rev-" \o ToString(i)

OlderHashes == {OlderHash(i) : i \in 1..MaxOlder}
\* the unique hashes of roCtx.AllRSs(): the new and the older replica sets
AllRSHashes == {NewRSHash} \cup OlderHashes

\* Go's map read service.Spec.Selector[key]: "" for a nil map or a missing key
SelectorValue(sel) == IF sel \in {NilSelector, NoKey} THEN "" ELSE sel

\* Go's two-valued map read: ok
HasKey(sel) == sel \notin {NilSelector, NoKey}

----------------------------------------------------------------------------
(* switchServiceSelector *)

\* mutant: the in-memory selector is not updated after the Patch
SwitchNoMemoryUpdate(svc, sel, newValue, patchOk) ==
    LET made == IF sel = NilSelector THEN NoKey ELSE sel IN
    IF HasKey(made) /\ made = newValue
    THEN [selector |-> made, patches |-> <<>>, events |-> <<>>, err |-> "nil"]
    ELSE IF ~patchOk
    THEN [selector |-> made,
          patches |-> <<[svc |-> svc, value |-> newValue]>>,
          events |-> <<>>, err |-> "patch failed"]
    ELSE [selector |-> made,
          patches |-> <<[svc |-> svc, value |-> newValue]>>,
          events |-> <<[type |-> "Normal", reason |-> "SwitchService",
                        svc |-> svc, value |-> newValue]>>,
          err |-> "nil"]

\* mutant: the in-memory selector is set before the Patch is known to succeed
SwitchUpdatesBeforePatch(svc, sel, newValue, patchOk) ==
    LET made == IF sel = NilSelector THEN NoKey ELSE sel IN
    IF HasKey(made) /\ made = newValue
    THEN [selector |-> made, patches |-> <<>>, events |-> <<>>, err |-> "nil"]
    ELSE IF ~patchOk
    THEN [selector |-> newValue,
          patches |-> <<[svc |-> svc, value |-> newValue]>>,
          events |-> <<>>, err |-> "patch failed"]
    ELSE [selector |-> newValue,
          patches |-> <<[svc |-> svc, value |-> newValue]>>,
          events |-> <<[type |-> "Normal", reason |-> "SwitchService",
                        svc |-> svc, value |-> newValue]>>,
          err |-> "nil"]

\* mutant: the Patch is issued without comparing the selector with the target
SwitchNoEarlyReturn(svc, sel, newValue, patchOk) ==
    LET made == IF sel = NilSelector THEN NoKey ELSE sel IN
    IF ~patchOk
    THEN [selector |-> made,
          patches |-> <<[svc |-> svc, value |-> newValue]>>,
          events |-> <<>>, err |-> "patch failed"]
    ELSE [selector |-> newValue,
          patches |-> <<[svc |-> svc, value |-> newValue]>>,
          events |-> <<[type |-> "Normal", reason |-> "SwitchService",
                        svc |-> svc, value |-> newValue]>>,
          err |-> "nil"]

\* switchServiceSelector(service, newRolloutUniqueLabelValue, r): the selector
\* after the call, the Patch calls issued, the events recorded, the error
switchServiceSelector(svc, sel, newValue, patchOk) ==
    LET made == IF sel = NilSelector THEN NoKey ELSE sel IN
    IF HasKey(made) /\ made = newValue
    THEN [selector |-> made, patches |-> <<>>, events |-> <<>>, err |-> "nil"]
    ELSE IF ~patchOk
    THEN [selector |-> made,
          patches |-> <<[svc |-> svc, value |-> newValue]>>,
          events |-> <<>>, err |-> "patch failed"]
    ELSE [selector |-> newValue,
          patches |-> <<[svc |-> svc, value |-> newValue]>>,
          events |-> <<[type |-> "Normal", reason |-> "SwitchService",
                        svc |-> svc, value |-> newValue]>>,
          err |-> "nil"]

----------------------------------------------------------------------------
(* Service resolver *)

\* a nil *corev1.Service
NoService == "<no service>"

LookupResults == {"found", "not found", "lookup failed"}

\* mutant: a missing service is reported to the caller only
getReferencedServiceSilent(serviceName, found) ==
    IF found = "found"
    THEN [svc |-> serviceName, lookups |-> <<serviceName>>,
          events |-> <<>>, conditions |-> <<>>, err |-> "nil"]
    ELSE [svc |-> NoService, lookups |-> <<serviceName>>,
          events |-> <<>>, conditions |-> <<>>, err |-> found]

\* getReferencedService(r, serviceName); found is what servicesLister.Get gives
getReferencedService(serviceName, found) ==
    IF found = "found"
    THEN [svc |-> serviceName, lookups |-> <<serviceName>>,
          events |-> <<>>, conditions |-> <<>>, err |-> "nil"]
    ELSE IF found = "not found"
    THEN [svc |-> NoService, lookups |-> <<serviceName>>,
          events |-> <<[type |-> "Warning", reason |-> "ServiceNotFound",
                        svc |-> serviceName, value |-> ""]>>,
          conditions |-> <<[type |-> "Progressing", status |-> "False",
                            reason |-> "ServiceNotFound", svc |-> serviceName]>>,
          err |-> "not found"]
    ELSE [svc |-> NoService, lookups |-> <<serviceName>>,
          events |-> <<>>, conditions |-> <<>>, err |-> found]

\* getPreviewAndActiveServices(r); cfg holds r.Spec.Strategy.BlueGreen's
\* PreviewService and ActiveService names ("" when unset)
getPreviewAndActiveServices(cfg, lookup) ==
    LET p == IF cfg.previewService # ""
             THEN getReferencedService(cfg.previewService, lookup[cfg.previewService])
             ELSE [svc |-> NoService, lookups |-> <<>>, events |-> <<>>,
                   conditions |-> <<>>, err |-> "nil"]
    IN  IF p.err # "nil"
        THEN [preview |-> NoService, active |-> NoService, lookups |-> p.lookups,
              events |-> p.events, conditions |-> p.conditions, err |-> p.err]
        ELSE IF cfg.activeService = ""
        THEN [preview |-> NoService, active |-> NoService, lookups |-> p.lookups,
              events |-> p.events, conditions |-> p.conditions,
              err |-> "missing field ActiveService"]
        ELSE LET a == getReferencedService(cfg.activeService, lookup[cfg.activeService])
             IN  IF a.err # "nil"
                 THEN [preview |-> NoService, active |-> NoService,
                       lookups |-> p.lookups \o a.lookups,
                       events |-> p.events \o a.events,
                       conditions |-> p.conditions \o a.conditions, err |-> a.err]
                 ELSE [preview |-> p.svc, active |-> a.svc,
                       lookups |-> p.lookups \o a.lookups,
                       events |-> p.events \o a.events,
                       conditions |-> p.conditions \o a.conditions, err |-> "nil"]

----------------------------------------------------------------------------
(* Blue-green traffic controller *)

\* what one pass reads of the rollout: ReadyForPause, IsSaturated, skipPause,
\* CompletedBlueGreenPause, completedPrePromotionAnalysis, r.Status.Abort
Contexts ==
    [ready : BOOLEAN, saturated : BOOLEAN, skipPause : BOOLEAN,
     completedPause : BOOLEAN, completedAnalysis : BOOLEAN, abort : BOOLEAN]

\* mutant: a preview service that already selects a revision is left alone
reconcilePreviewServiceKeeps(previewSvc, sel, patchOk) ==
    IF previewSvc = NoService \/ HasKey(sel)
    THEN [selector |-> sel, patches |-> <<>>, events |-> <<>>, err |-> "nil"]
    ELSE switchServiceSelector(previewSvc, sel, NewRSHash, patchOk)

\* reconcilePreviewService(roCtx, previewSvc)
reconcilePreviewService(previewSvc, sel, patchOk) ==
    IF previewSvc = NoService
    THEN [selector |-> sel, patches |-> <<>>, events |-> <<>>, err |-> "nil"]
    ELSE switchServiceSelector(previewSvc, sel, NewRSHash, patchOk)

\* controller.FilterActiveReplicaSets: the replica sets that still have pods
FilterActiveReplicaSets(rss) == SelectSeq(rss, LAMBDA rs : rs.active)

\* mutant: the abort loop keeps the lowest revision
RECURSIVE AbortLoopLowest(_, _, _, _)
AbortLoopLowest(rss, i, currentRevision, newPodHash) ==
    IF i > Len(rss) THEN newPodHash
    ELSE IF rss[i].revision > 0 /\ (currentRevision = 0 \/ rss[i].revision < currentRevision)
         THEN AbortLoopLowest(rss, i + 1, rss[i].revision, rss[i].hash)
         ELSE AbortLoopLowest(rss, i + 1, currentRevision, newPodHash)

\* the loop of the abort rule from its i-th iteration on
RECURSIVE AbortLoop(_, _, _, _)
AbortLoop(rss, i, currentRevision, newPodHash) ==
    IF i > Len(rss) THEN newPodHash
    ELSE IF rss[i].revision > currentRevision
         THEN AbortLoop(rss, i + 1, rss[i].revision, rss[i].hash)
         ELSE AbortLoop(rss, i + 1, currentRevision, newPodHash)

\* mutant: the target starts empty instead of at the current selector value
ActiveTargetNoDefault(ctx, older, sel) ==
    LET skipped == IF ctx.skipPause THEN NewRSHash ELSE ""
        promoted == IF ctx.completedPause /\ ctx.completedAnalysis
                    THEN NewRSHash ELSE skipped
    IN  IF ctx.abort
        THEN AbortLoop(FilterActiveReplicaSets(older), 1, 0, promoted)
        ELSE promoted

\* mutant: the completed-pause rule is left out
ActiveTargetNoPauseRule(ctx, older, sel) ==
    LET current == SelectorValue(sel)
        skipped == IF ctx.skipPause THEN NewRSHash ELSE current
    IN  IF ctx.abort
        THEN AbortLoop(FilterActiveReplicaSets(older), 1, 0, skipped)
        ELSE skipped

\* the value reconcileActiveService hands to switchServiceSelector
ActiveTarget(ctx, older, sel) ==
    LET current == SelectorValue(sel)
        skipped == IF ctx.skipPause THEN NewRSHash ELSE current
        promoted == IF ctx.completedPause /\ ctx.completedAnalysis
                    THEN NewRSHash ELSE skipped
    IN  IF ctx.abort
        THEN AbortLoop(FilterActiveReplicaSets(older), 1, 0, promoted)
        ELSE promoted

NoTarget == "<no switch>"

\* mutant: the saturation check is lost
SaturationGateOpen(ctx) == TRUE

\* the guard of reconcileActiveService: the new replica set is ready for the
\* pause and saturated
SaturationGate(ctx) == ctx.ready /\ ctx.saturated

\* reconcileActiveService(roCtx, previewSvc, activeSvc)
reconcileActiveService(ctx, older, activeSvc, sel, patchOk) ==
    IF ~SaturationGate(ctx)
    THEN [selector |-> sel, patches |-> <<>>, events |-> <<>>, err |-> "nil",
          target |-> NoTarget]
    ELSE LET t == ActiveTarget(ctx, older, sel)
             r == switchServiceSelector(activeSvc, sel, t, patchOk)
         IN  [selector |-> r.selector, patches |-> r.patches, events |-> r.events,
              err |-> r.err, target |-> t]

----------------------------------------------------------------------------
(* Canary traffic controller *)

\* a nil *appsv1.ReplicaSet
NoRS == "<no replica set>"

\* mutant: a role whose replica set is nil is reconciled all the same
reconcileRoleNoNilCheck(serviceName, rsHash, found, sel, patchOk) ==
    IF serviceName = ""
    THEN [selector |-> sel, lookups |-> <<>>, patches |-> <<>>, events |-> <<>>,
          conditions |-> <<>>, err |-> "nil"]
    ELSE LET g == getReferencedService(serviceName, found) IN
         IF g.err # "nil"
         THEN [selector |-> sel, lookups |-> g.lookups, patches |-> <<>>,
               events |-> g.events, conditions |-> g.conditions, err |-> g.err]
         ELSE IF SelectorValue(sel) # rsHash
         THEN LET r == switchServiceSelector(serviceName, sel, rsHash, patchOk) IN
              [selector |-> r.selector, lookups |-> g.lookups, patches |-> r.patches,
               events |-> r.events, conditions |-> <<>>, err |-> r.err]
         ELSE [selector |-> sel, lookups |-> g.lookups, patches |-> <<>>,
               events |-> <<>>, conditions |-> <<>>, err |-> "nil"]

\* one role of reconcileStableAndCanaryService: the lookup, the comparison of
\* the selector with the role's hash, the switch
reconcileRole(serviceName, rsHash, found, sel, patchOk) ==
    IF serviceName = "" \/ rsHash = NoRS
    THEN [selector |-> sel, lookups |-> <<>>, patches |-> <<>>, events |-> <<>>,
          conditions |-> <<>>, err |-> "nil"]
    ELSE LET g == getReferencedService(serviceName, found) IN
         IF g.err # "nil"
         THEN [selector |-> sel, lookups |-> g.lookups, patches |-> <<>>,
               events |-> g.events, conditions |-> g.conditions, err |-> g.err]
         ELSE IF SelectorValue(sel) # rsHash
         THEN LET r == switchServiceSelector(serviceName, sel, rsHash, patchOk) IN
              [selector |-> r.selector, lookups |-> g.lookups, patches |-> r.patches,
               events |-> r.events, conditions |-> <<>>, err |-> r.err]
         ELSE [selector |-> sel, lookups |-> g.lookups, patches |-> <<>>,
               events |-> <<>>, conditions |-> <<>>, err |-> "nil"]

\* reconcileStableAndCanaryService(roCtx); cfg holds whether
\* r.Spec.Strategy.Canary is nil and its StableService and CanaryService names,
\* roles the hashes of roCtx.StableRS() and roCtx.NewRS()
reconcileStableAndCanaryService(cfg, roles, lookup, sels, patchOk) ==
    IF cfg.canaryNil
    THEN [selector |-> sels, lookups |-> <<>>, patches |-> <<>>, events |-> <<>>,
          conditions |-> <<>>, err |-> "nil"]
    ELSE LET st == reconcileRole(cfg.stableService, roles.stableRS,
                                 lookup["stable"], sels["stable"], patchOk["stable"])
         IN  IF st.err # "nil"
             THEN [selector |-> [sels EXCEPT !["stable"] = st.selector],
                   lookups |-> st.lookups, patches |-> st.patches,
                   events |-> st.events, conditions |-> st.conditions, err |-> st.err]
             ELSE LET cn == reconcileRole(cfg.canaryService, roles.newRS,
                                          lookup["canary"], sels["canary"],
                                          patchOk["canary"])
                  IN  [selector |-> [sels EXCEPT !["stable"] = st.selector,
                                                 !["canary"] = cn.selector],
                       lookups |-> st.lookups \o cn.lookups,
                       patches |-> st.patches \o cn.patches,
                       events |-> st.events \o cn.events,
                       conditions |-> st.conditions \o cn.conditions,
                       err |-> cn.err]

----------------------------------------------------------------------------
(* One blue-green pass over the services: resolve, preview, active *)

\* the services of one blue-green pass: getPreviewAndActiveServices, then
\* reconcilePreviewService, then reconcileActiveService, each error ending the pass
reconcileBlueGreen(cfg, ctx, older, lookup, sels, patchOk) ==
    LET g == getPreviewAndActiveServices(cfg, lookup) IN
    IF g.err # "nil"
    THEN [selector |-> sels, lookups |-> g.lookups, patches |-> <<>>,
          events |-> g.events, conditions |-> g.conditions, err |-> g.err,
          target |-> NoTarget, reached |-> FALSE]
    ELSE LET p == reconcilePreviewService(g.preview, sels["preview"], patchOk["preview"])
             afterPreview == [sels EXCEPT !["preview"] = p.selector]
         IN  IF p.err # "nil"
             THEN [selector |-> afterPreview, lookups |-> g.lookups,
                   patches |-> p.patches, events |-> g.events \o p.events,
                   conditions |-> g.conditions, err |-> p.err,
                   target |-> NoTarget, reached |-> FALSE]
             ELSE LET a == reconcileActiveService(ctx, older, g.active,
                                                  afterPreview["active"],
                                                  patchOk["active"])
                  IN  [selector |-> [afterPreview EXCEPT !["active"] = a.selector],
                       lookups |-> g.lookups,
                       patches |-> p.patches \o a.patches,
                       events |-> g.events \o p.events \o a.events,
                       conditions |-> g.conditions, err |-> a.err,
                       target |-> a.target, reached |-> TRUE]

----------------------------------------------------------------------------
(* Datadog provider: measurements *)

\* a nil *metav1.Time is <<>>, a set one <<seconds>>
NoTime == <<>>
At(t) == <<t>>

\* the zero v1alpha1.Measurement with StartedAt set
NewMeasurement(t) ==
    [phase |-> "", value |-> "", message |-> "",
     startedAt |-> At(t), finishedAt |-> NoTime, resumeAt |-> NoTime]

ZeroMeasurement ==
    [phase |-> "", value |-> "", message |-> "",
     startedAt |-> NoTime, finishedAt |-> NoTime, resumeAt |-> NoTime]

\* what a call that panicked leaves in place of a Measurement
Panicked == [ZeroMeasurement EXCEPT !.phase = "<panic>"]

\* metricutil.MarkMeasurementError: phase Error, the error text, FinishedAt now
MarkMeasurementError(m, text, t) ==
    [m EXCEPT !.phase = "Error", !.message = text, !.finishedAt = At(t)]

\* fmt.Sprintf("%.2f", v)
Format2(v) == IF v = "NaN" THEN "NaN" ELSE v \o ".00"
\* fmt's %f of one element
Format6(v) == IF v = "NaN" THEN "NaN" ELSE v \o ".000000"

\* make([]float64, n): n zeros
RECURSIVE Zeros(_)
Zeros(n) == IF n = 0 THEN <<>> ELSE <<"0">> \o Zeros(n - 1)

RECURSIVE Join(_, _, _)
Join(strs, sep, i) ==
    IF i > Len(strs) THEN ""
    ELSE IF i = Len(strs) THEN strs[i]
    ELSE strs[i] \o sep \o Join(strs, sep, i + 1)

\* the length above which flattenResponse formats every point
SinglePointLimit == 2

\* flattenResponse(dp) of datadog.go: the floats (len(dp) zeros, then the
\* values when there are more than two) and the string; dp[0] of an empty
\* slice panics
flattenResponse(dp) ==
    IF Len(dp) > SinglePointLimit
    THEN [panic |-> FALSE,
          floats |-> Zeros(Len(dp)) \o dp,
          valueStr |-> "[" \o Join([i \in 1..Len(dp) |-> Format2(dp[i])], ",", 1) \o "]"]
    ELSE IF Len(dp) = 0
    THEN [panic |-> TRUE, floats |-> <<>>, valueStr |-> ""]
    ELSE [panic |-> FALSE, floats |-> Zeros(Len(dp)), valueStr |-> Format2(dp[1])]

HasNaN(floats) == \E i \in 1..Len(floats) : floats[i] = "NaN"

\* processResponse(metric, response) of datadog.go; verdict is what
\* evaluate.EvaluateResult returns for the floats it is given
processResponse(response, verdict) ==
    IF Len(response) = 0
    THEN [panic |-> FALSE, value |-> "", status |-> "Inconclusive", evaluated |-> FALSE]
    ELSE LET f == flattenResponse(response[1]) IN
         IF f.panic
         THEN [panic |-> TRUE, value |-> "", status |-> "", evaluated |-> FALSE]
         ELSE IF HasNaN(f.floats)
         THEN [panic |-> FALSE, value |-> f.valueStr, status |-> "Inconclusive",
               evaluated |-> FALSE]
         ELSE [panic |-> FALSE, value |-> f.valueStr, status |-> verdict,
               evaluated |-> TRUE]

\* the delay of ResumeAt, in seconds
ResumeDelay == 2

\* runMeasurement(run, metric) of datadog.go at time t; q is what
\* ResolveArgs and QueryMetrics give
runMeasurement(q, verdict, t) ==
    IF q.kind # "series"
    THEN [m |-> MarkMeasurementError(NewMeasurement(t), q.kind, t), evaluated |-> FALSE]
    ELSE LET r == processResponse(q.series, verdict) IN
         IF r.panic THEN [m |-> Panicked, evaluated |-> FALSE]
         ELSE IF r.value = "" /\ r.status # "Successful"
         THEN [m |-> [NewMeasurement(t) EXCEPT !.phase = "Running",
                                               !.resumeAt = At(t + ResumeDelay),
                                               !.value = r.value],
               evaluated |-> r.evaluated]
         ELSE IF r.value # "" /\ r.status = "Successful"
         THEN [m |-> [NewMeasurement(t) EXCEPT !.phase = r.status,
                                               !.finishedAt = At(t),
                                               !.value = r.value],
               evaluated |-> r.evaluated]
         ELSE [m |-> [NewMeasurement(t) EXCEPT !.value = r.value],
               evaluated |-> r.evaluated]

\* flattenResponse(dp) of the earlier revision: len(dp) zeros, then the values
flattenResponseEarlier(dp) == Zeros(Len(dp)) \o dp

\* processResponse(metric, response) of the earlier revision, on one series
processResponseEarlier(points, verdict) ==
    IF Len(points) < 1
    THEN [value |-> "", status |-> "Inconclusive", evaluated |-> FALSE]
    ELSE LET result == flattenResponseEarlier(points) IN
         [value |-> "[" \o Join([i \in 1..Len(result) |-> Format6(result[i])], " ", 1)
                        \o "]",
          status |-> verdict, evaluated |-> TRUE]

\* Run(run, metric) of the earlier revision at time t
RunEarlier(q, verdict, t) ==
    IF q.kind # "series"
    THEN [m |-> MarkMeasurementError(NewMeasurement(t), q.kind, t), evaluated |-> FALSE]
    ELSE IF Len(q.series) > 0
    THEN LET r == processResponseEarlier(q.series[1], verdict) IN
         [m |-> [NewMeasurement(t) EXCEPT !.value = r.value, !.phase = r.status,
                                          !.finishedAt = At(t)],
          evaluated |-> r.evaluated]
    ELSE [m |-> [NewMeasurement(t) EXCEPT !.value = "", !.phase = "Inconclusive",
                                          !.finishedAt = At(t)],
          evaluated |-> FALSE]

\* one query cycle of the provider: Run of either revision
Run(version, q, verdict, t) ==
    IF version = "current" THEN runMeasurement(q, verdict, t)
    ELSE RunEarlier(q, verdict, t)

\* no Terminate call in the last step
NoTerminate ==
    [given |-> ZeroMeasurement, returned |-> ZeroMeasurement, queries |-> 0,
     during |-> "none"]

\* mutant: Terminate closes the measurement it is given
TerminateFinishes(m) ==
    [m |-> [m EXCEPT !.phase = "Error", !.finishedAt = m.startedAt], queries |-> <<>>]

\* Terminate(run, metric, measurement): a warning is logged, no query is
\* made, the measurement is returned
TerminateReturns(m) == [m |-> m, queries |-> <<>>]

\* the number of retries Resume's loop allows
RetryLimit == 3

\* the condition of Resume's loop
ResumeLoopCondition(version, n, m) ==
    IF version = "current"
    THEN n < RetryLimit /\ m.phase # "Successful"
    ELSE n < RetryLimit /\ m.phase = "Inconclusive"

\* whether the loop body sleeps after its query
ResumeSleeps(version, m) ==
    IF version = "current" THEN m.value = "" ELSE m.value # ""

\* the seconds the loop body sleeps
SleepSeconds == 1

\* mutant: the loop body starts over instead of returning
ResumeBodyRepeats(n) == [pc |-> "resume", retries |-> n]

\* how the loop body ends: return measurement, before retries++ can run
ResumeBodyEnd(n) == [pc |-> "idle", retries |-> n]

----------------------------------------------------------------------------
(* Replica-set snapshots *)

Revisions == 0..MaxRevision

\* revision numbers are unique per rollout; 0 stands for a replica set whose
\* revision GetReplicaSetRevision could not read
RevisionAssignments ==
    {r \in [1..MaxOlder -> Revisions] :
        \A i, j \in 1..MaxOlder : (i # j /\ r[i] > 0) => r[i] # r[j]}

Snapshots ==
    {[i \in 1..MaxOlder |->
        [hash |-> OlderHash(i), revision |-> r[i], active |-> a[i]]] :
        r \in RevisionAssignments, a \in [1..MaxOlder -> BOOLEAN]}

----------------------------------------------------------------------------
(* State *)

NoContext ==
    [ready |-> FALSE, saturated |-> FALSE, skipPause |-> FALSE,
     completedPause |-> FALSE, completedAnalysis |-> FALSE, abort |-> FALSE]

NoBlueGreen == [previewService |-> "", activeService |-> ""]
NoCanary == [stableService |-> "", canaryService |-> ""]
NoRoles == [stableRS |-> NoRS, newRS |-> NoRS]

BlueGreenConfigs == [previewService : {"", "preview"}, activeService : {"", "active"}]

CanaryConfigs == [stableService : {"", "stable"}, canaryService : {"", "canary"}]

\* the stable replica set is one of the rollout's replica sets, or unresolved
CanaryRoles == [stableRS : AllRSHashes \cup {NoRS}, newRS : {NewRSHash, NoRS}]

\* a rollout has one strategy: r.Spec.Strategy.BlueGreen or r.Spec.Strategy.Canary
BlueGreenRollouts ==
    {[strategy |-> "BlueGreen", bluegreen |-> b, canary |-> NoCanary,
      ctx |-> c, roles |-> NoRoles] : b \in BlueGreenConfigs, c \in Contexts}

\* the status of a canary rollout: saturation, pause and promotion, abort
CanaryContexts ==
    {c \in Contexts : /\ c.ready = c.saturated
                      /\ c.skipPause = c.completedPause
                      /\ c.completedPause = c.completedAnalysis}

CanaryRollouts ==
    {[strategy |-> "Canary", bluegreen |-> NoBlueGreen, canary |-> n,
      ctx |-> c, roles |-> r] :
        n \in CanaryConfigs, r \in CanaryRoles, c \in CanaryContexts}

NoOp ==
    [op |-> "none", svc |-> NoService, target |-> NoTarget, reached |-> FALSE,
     pre |-> [s \in Services |-> NilSelector],
     lookups |-> <<>>, patches |-> <<>>, events |-> <<>>, conditions |-> <<>>,
     err |-> "nil"]

\* a service starts with no selector at all, or selecting the first older
\* revision or the new one
InitialSelectors == {NilSelector, OlderHash(1), NewRSHash}

BlueGreenServices == {"preview", "active"}
CanaryServices == {"stable", "canary"}

InitSelectors(used) ==
    {f \in [Services -> InitialSelectors] :
        \A s \in Services \ used : f[s] = NilSelector}

\* the snapshot with revisions 1..MaxOlder, all active
AllActiveSnapshot ==
    [i \in 1..MaxOlder |-> [hash |-> OlderHash(i), revision |-> i, active |-> TRUE]]

\* no provider call yet
ProviderIdle ==
    /\ pc = "idle" /\ call = "none" /\ retries = 0
    /\ measurement = ZeroMeasurement /\ attempts = <<>>
    /\ outcome = "none" /\ now = 0
    /\ terminated = NoTerminate

----------------------------------------------------------------------------
(* Direct calls of switchServiceSelector *)

\* the values a caller hands to switchServiceSelector
TargetValues == AllRSHashes \cup {""}

InitSwitch ==
    /\ selector \in InitSelectors(BlueGreenServices)
    /\ rollout \in {r \in BlueGreenRollouts : r.ctx = NoContext /\ r.bluegreen = NoBlueGreen}
    /\ olderRSs = AllActiveSnapshot
    /\ last = NoOp
    /\ prev = NoOp
    /\ ProviderIdle
    /\ impl = "current"

SwitchCall ==
    \E svc \in BlueGreenServices, newValue \in TargetValues, patchOk \in BOOLEAN :
        LET r == switchServiceSelector(svc, selector[svc], newValue, patchOk) IN
        /\ selector' = [selector EXCEPT ![svc] = r.selector]
        /\ last' = [NoOp EXCEPT !.op = "switch", !.svc = svc, !.target = newValue,
                                !.pre = selector, !.patches = r.patches,
                                !.events = r.events, !.err = r.err]
        /\ prev' = last
        /\ UNCHANGED <<rollout, olderRSs>>
        /\ UNCHANGED ddvars

NextSwitch == SwitchCall

SpecSwitch == InitSwitch /\ [][NextSwitch]_vars

----------------------------------------------------------------------------
(* Reconciliation passes *)

Init ==
    /\ rollout \in BlueGreenRollouts \cup CanaryRollouts
    /\ selector \in InitSelectors(IF rollout.strategy = "BlueGreen"
                                  THEN BlueGreenServices ELSE CanaryServices)
    /\ olderRSs = AllActiveSnapshot
    /\ last = NoOp
    /\ prev = NoOp
    /\ ProviderIdle
    /\ impl = "current"

\* one pass of a blue-green rollout over its services
BlueGreenPass ==
    /\ rollout.strategy = "BlueGreen"
    /\ \E lookup \in [BlueGreenServices -> LookupResults],
          patchOk \in [BlueGreenServices -> BOOLEAN] :
        LET r == reconcileBlueGreen(rollout.bluegreen, rollout.ctx, olderRSs,
                                    lookup, selector, patchOk)
        IN
        /\ selector' = r.selector
        /\ last' = [NoOp EXCEPT !.op = "bluegreen", !.pre = selector,
                                !.reached = r.reached, !.target = r.target,
                                !.lookups = r.lookups, !.patches = r.patches,
                                !.events = r.events, !.conditions = r.conditions,
                                !.err = r.err]
        /\ UNCHANGED <<rollout, olderRSs, prev>>
        /\ UNCHANGED ddvars

\* one call of reconcileStableAndCanaryService
CanaryPass ==
    \E lookup \in [CanaryServices -> LookupResults],
       patchOk \in [CanaryServices -> BOOLEAN] :
        LET r == reconcileStableAndCanaryService(
                     [canaryNil |-> rollout.strategy # "Canary",
                      stableService |-> rollout.canary.stableService,
                      canaryService |-> rollout.canary.canaryService],
                     rollout.roles, lookup, selector, patchOk)
        IN
        /\ selector' = r.selector
        /\ last' = [NoOp EXCEPT !.op = "canary", !.pre = selector,
                                !.lookups = r.lookups, !.patches = r.patches,
                                !.events = r.events, !.conditions = r.conditions,
                                !.err = r.err]
        /\ UNCHANGED <<rollout, olderRSs, prev>>
        /\ UNCHANGED ddvars

Next == BlueGreenPass \/ CanaryPass

Spec == Init /\ [][Next]_vars

----------------------------------------------------------------------------
(* Passes that follow each other over services that all exist *)

\* servicesLister.Get finds every service
ServicesExist(svcs) == [s \in svcs |-> "found"]

\* a blue-green pass; prev keeps the pass before it
BlueGreenRepass ==
    /\ rollout.strategy = "BlueGreen"
    /\ \E patchOk \in [BlueGreenServices -> BOOLEAN] :
        LET r == reconcileBlueGreen(rollout.bluegreen, rollout.ctx, olderRSs,
                                    ServicesExist(BlueGreenServices), selector, patchOk)
        IN
        /\ selector' = r.selector
        /\ last' = [NoOp EXCEPT !.op = "bluegreen", !.pre = selector,
                                !.reached = r.reached, !.target = r.target,
                                !.lookups = r.lookups, !.patches = r.patches,
                                !.events = r.events, !.conditions = r.conditions,
                                !.err = r.err]
        /\ prev' = last
        /\ UNCHANGED <<rollout, olderRSs>>
        /\ UNCHANGED ddvars

\* a canary pass; prev keeps the pass before it
CanaryRepass ==
    /\ rollout.strategy = "Canary"
    /\ \E patchOk \in [CanaryServices -> BOOLEAN] :
        LET r == reconcileStableAndCanaryService(
                     [canaryNil |-> FALSE,
                      stableService |-> rollout.canary.stableService,
                      canaryService |-> rollout.canary.canaryService],
                     rollout.roles, ServicesExist(CanaryServices), selector, patchOk)
        IN
        /\ selector' = r.selector
        /\ last' = [NoOp EXCEPT !.op = "canary", !.pre = selector,
                                !.lookups = r.lookups, !.patches = r.patches,
                                !.events = r.events, !.conditions = r.conditions,
                                !.err = r.err]
        /\ prev' = last
        /\ UNCHANGED <<rollout, olderRSs>>
        /\ UNCHANGED ddvars

NextConverge == BlueGreenRepass \/ CanaryRepass

SpecConverge == Init /\ [][NextConverge]_vars

----------------------------------------------------------------------------
(* reconcileActiveService on an aborted rollout *)

\* the passes that reach the abort rule: saturated and aborted
AbortContexts == {c \in Contexts : c.ready /\ c.saturated /\ c.abort}

InitActive ==
    /\ rollout \in {r \in BlueGreenRollouts :
                       r.ctx \in AbortContexts /\ r.bluegreen.activeService = "active"
                       /\ r.bluegreen.previewService = ""}
    /\ selector \in InitSelectors({"active"})
    /\ olderRSs \in Snapshots
    /\ last = NoOp
    /\ prev = NoOp
    /\ ProviderIdle
    /\ impl = "current"

\* one call of reconcileActiveService on the resolved active service
ActivePass ==
    \E patchOk \in BOOLEAN :
        LET r == reconcileActiveService(rollout.ctx, olderRSs, "active",
                                        selector["active"], patchOk)
        IN
        /\ selector' = [selector EXCEPT !["active"] = r.selector]
        /\ last' = [NoOp EXCEPT !.op = "active", !.pre = selector,
                                !.reached = TRUE, !.target = r.target,
                                !.patches = r.patches, !.events = r.events,
                                !.err = r.err]
        /\ UNCHANGED <<rollout, olderRSs, prev>>
        /\ UNCHANGED ddvars

NextActive == ActivePass

SpecActive == InitActive /\ [][NextActive]_vars

----------------------------------------------------------------------------
(* Datadog provider: calls *)

\* the points of one series: up to MaxPoints samples, at most one not a number
SeriesPoints ==
    {[i \in 1..n |-> IF i = k THEN "NaN" ELSE "1"] : n \in 0..MaxPoints, k \in 0..MaxPoints}

\* what QueryMetrics returns: no series, one series, or two
Responses ==
    {<<>>} \cup {<<s>> : s \in SeriesPoints}
    \cup {<<s, <<"1">>>> : s \in {p \in SeriesPoints : Len(p) <= 1}}

\* what ResolveArgs and QueryMetrics give one query cycle
Queries ==
    {[kind |-> k, series |-> <<>>] : k \in {"template error", "query error"}}
    \cup {[kind |-> "series", series |-> r] : r \in Responses}

\* what evaluate.EvaluateResult can return
Verdicts == {"Successful", "Failed", "Inconclusive", "Error"}

NotEvaluated == "<not evaluated>"

\* the sample set of a query: the points of the first series
SampleSet(q) == IF Len(q.series) = 0 THEN <<>> ELSE q.series[1]

QueryClass(q) ==
    IF q.kind # "series" THEN q.kind
    ELSE IF Len(SampleSet(q)) = 0 THEN "empty"
    ELSE IF HasNaN(SampleSet(q)) THEN "NaN"
    ELSE "numeric"

\* the verdicts to draw for a query: none when the evaluator is not reached
VerdictsFor(q) ==
    IF Run(impl, q, "Successful", now).evaluated THEN Verdicts ELSE {NotEvaluated}

\* one query cycle: the Measurement it produced and whether the evaluator ran
Attempt(q, verdict) == Run(impl, q, verdict, now)

\* what is kept of one query cycle
Kept(q, verdict, a) ==
    [class |-> QueryClass(q),
     verdict |-> IF a.evaluated THEN verdict ELSE NotEvaluated,
     phase |-> a.m.phase,
     finished |-> a.m.finishedAt # NoTime]

InitDatadog ==
    /\ selector = [s \in Services |-> NilSelector]
    /\ rollout \in {r \in BlueGreenRollouts : r.ctx = NoContext /\ r.bluegreen = NoBlueGreen}
    /\ olderRSs = AllActiveSnapshot
    /\ last = NoOp
    /\ prev = NoOp
    /\ ProviderIdle
    /\ impl \in {"current", "earlier"}

\* Provider.Run against a backend that answers with one of qs
RunWith(qs) ==
    /\ pc = "idle"
    /\ \E q \in qs : \E verdict \in VerdictsFor(q) :
        LET a == Attempt(q, verdict) IN
        /\ call' = "Run"
        /\ attempts' = <<Kept(q, verdict, a)>>
        /\ retries' = 0
        /\ measurement' = IF a.m = Panicked THEN measurement ELSE a.m
        /\ outcome' = IF a.m = Panicked THEN "panic" ELSE "returned"
    /\ terminated' = NoTerminate
    /\ UNCHANGED <<impl, pc, now>>
    /\ UNCHANGED trafficvars

\* Provider.Run
CallRun == pc = "idle" /\ RunWith(Queries)

\* Provider.Resume up to the head of its loop, against a backend that answers
\* with one of qs
ResumeWith(qs) ==
    /\ pc = "idle"
    /\ \E q \in qs : \E verdict \in VerdictsFor(q) :
        LET a == Attempt(q, verdict) IN
        /\ call' = "Resume"
        /\ attempts' = <<Kept(q, verdict, a)>>
        /\ retries' = 0
        /\ measurement' = IF a.m = Panicked THEN measurement ELSE a.m
        /\ outcome' = IF a.m = Panicked THEN "panic" ELSE "none"
        /\ pc' = IF a.m = Panicked THEN "idle" ELSE "resume"
    /\ terminated' = NoTerminate
    /\ UNCHANGED <<impl, now>>
    /\ UNCHANGED trafficvars

\* Provider.Resume up to the head of its loop
CallResume == pc = "idle" /\ ResumeWith(Queries)

\* one iteration of Resume's loop against a backend that answers with one of
\* qs: the query, the sleep, the end of the body
RetryWith(qs) ==
    /\ pc = "resume"
    /\ ResumeLoopCondition(impl, retries, measurement)
    /\ Len(attempts) < MaxAttempts
    /\ \E q \in qs : \E verdict \in VerdictsFor(q) :
        LET a == Attempt(q, verdict)
            sleeps == a.m # Panicked /\ ResumeSleeps(impl, a.m)
            end == ResumeBodyEnd(retries)
        IN
        /\ sleeps => now + SleepSeconds <= MaxClock
        /\ now' = IF sleeps THEN now + SleepSeconds ELSE now
        /\ attempts' = Append(attempts, Kept(q, verdict, a))
        /\ measurement' = IF a.m = Panicked THEN measurement ELSE a.m
        /\ pc' = IF a.m = Panicked THEN "idle" ELSE end.pc
        /\ retries' = end.retries
        /\ outcome' = IF a.m = Panicked THEN "panic"
                      ELSE IF end.pc = "idle" THEN "returned" ELSE "none"
    /\ terminated' = NoTerminate
    /\ UNCHANGED <<impl, call>>
    /\ UNCHANGED trafficvars

\* one iteration of Resume's loop
ResumeRetry == pc = "resume" /\ RetryWith(Queries)

\* Resume's loop condition fails: return measurement
ResumeReturn ==
    /\ pc = "resume"
    /\ ~ResumeLoopCondition(impl, retries, measurement)
    /\ pc' = "idle"
    /\ outcome' = "returned"
    /\ terminated' = NoTerminate
    /\ UNCHANGED <<impl, call, retries, measurement, attempts, now>>
    /\ UNCHANGED trafficvars

\* Provider.Terminate between calls, on the Measurement last returned
Terminate ==
    /\ pc = "idle"
    /\ LET r == TerminateReturns(measurement) IN
        /\ call' = "Terminate"
        /\ attempts' = r.queries
        /\ outcome' = "returned"
        /\ measurement' = r.m
        /\ terminated' = [given |-> measurement, returned |-> r.m,
                          queries |-> Len(r.queries), during |-> pc]
    /\ UNCHANGED <<impl, pc, retries, now>>
    /\ UNCHANGED trafficvars

\* Provider.Terminate while Resume is inside its loop: the provider keeps no
\* state between calls, so the Resume in flight is not touched
TerminateInFlight ==
    /\ pc = "resume"
    /\ terminated = NoTerminate
    /\ LET r == TerminateReturns(measurement) IN
        terminated' = [given |-> measurement, returned |-> r.m,
                       queries |-> Len(r.queries), during |-> pc]
    /\ UNCHANGED <<impl, pc, call, retries, measurement, attempts, outcome, now>>
    /\ UNCHANGED trafficvars

\* time passes between calls
Tick ==
    /\ pc = "idle"
    /\ now < MaxClock
    /\ now' = now + 1
    /\ terminated' = NoTerminate
    /\ UNCHANGED <<impl, pc, call, retries, measurement, attempts, outcome>>
    /\ UNCHANGED trafficvars

NextDatadog ==
    CallRun \/ CallResume \/ ResumeRetry \/ ResumeReturn \/ Terminate
    \/ TerminateInFlight \/ Tick

SpecDatadog == InitDatadog /\ [][NextDatadog]_vars

----------------------------------------------------------------------------
(* One measurement of datadog.go, driven by its caller *)

\* the time from which the backend has data: early enough for a Resume that
\* an earlier empty answer asked for to become due
DataFrom == MaxClock - ResumeDelay + 1

\* what the backend answers at time t: before DataFrom anything but a series
\* without points, from DataFrom on a series with points
QueriesAt(t) ==
    IF t >= DataFrom
    THEN {q \in Queries : q.kind = "series" /\ Len(SampleSet(q)) > 0}
    ELSE {q \in Queries : QueryClass(q) # "empty" \/ Len(q.series) = 0}

\* the caller calls Resume when the Measurement it holds is Running and its
\* ResumeAt has passed
ResumeDue ==
    /\ call \in {"Run", "Resume"} /\ outcome = "returned"
    /\ measurement.phase = "Running"
    /\ measurement.resumeAt # NoTime
    /\ measurement.resumeAt[1] <= now

InitCaller == InitDatadog /\ impl = "current"

\* the caller starts the measurement
CallerRun == call = "none" /\ RunWith(QueriesAt(now))

\* the caller resumes the measurement
CallerResume == ResumeDue /\ ResumeWith(QueriesAt(now))

\* Resume's loop, inside the call the caller made
CallerRetry == pc = "resume" /\ RetryWith(QueriesAt(now))

NextCaller == CallerRun \/ CallerResume \/ CallerRetry \/ ResumeReturn \/ Tick

\* the caller's reconciliation loop keeps running and time passes
SpecCaller == InitCaller /\ [][NextCaller]_vars /\ WF_vars(NextCaller)

----------------------------------------------------------------------------
(* Claims about the traffic selector controller *)

PatchesOn(svc) == SelectSeq(last.patches, LAMBDA p : p.svc = svc)
SwitchEventsOn(svc) ==
    SelectSeq(last.events, LAMBDA e : e.reason = "SwitchService" /\ e.svc = svc)
Warnings == SelectSeq(last.events, LAMBDA e : e.type = "Warning")
IsPass == last.op \in {"bluegreen", "canary"}

\* C1: when a call switchServiceSelector(service, h) that returned no error is
\* followed by the same call, the second call issues no Patch, records no
\* event and leaves the selector as it was; if the selector value differed
\* from h before the first call, the two calls issue exactly one Patch.
C1_SwitchIdempotent ==
    (/\ last.op = "switch" /\ prev.op = "switch"
     /\ prev.svc = last.svc /\ prev.target = last.target
     /\ prev.err = "nil")
    => /\ last.patches = <<>>
       /\ last.events = <<>>
       /\ last.err = "nil"
       /\ selector[last.svc] = last.pre[last.svc]
       /\ selector[last.svc] = last.target
       /\ (SelectorValue(prev.pre[prev.svc]) # prev.target
              => Len(prev.patches) + Len(last.patches) = 1)

\* a switch that patched, followed by the same switch
C1_Witness ==
    /\ last.op = "switch" /\ prev.op = "switch"
    /\ prev.svc = last.svc /\ prev.target = last.target
    /\ prev.err = "nil"
    /\ prev.pre[prev.svc] = OlderHash(1) /\ prev.target = NewRSHash
    /\ Len(prev.patches) = 1
    /\ last.patches = <<>>

\* C2 as stated: a blue-green pass whose new replica set is not ready for the
\* pause or not saturated issues no Patch, on the preview service or on the
\* active service.
C2_NoSwitchWhenUnsaturated ==
    (/\ last.op = "bluegreen"
     /\ ~(rollout.ctx.ready /\ rollout.ctx.saturated))
    => last.patches = <<>>

\* C2 amended: such a pass issues no Patch on the active service and leaves
\* its selector as it was; the only Patch it can issue sets the preview
\* service to the new replica set's hash.
C2_NoActiveSwitchWhenUnsaturated ==
    (/\ last.op = "bluegreen"
     /\ ~(rollout.ctx.ready /\ rollout.ctx.saturated))
    => /\ PatchesOn("active") = <<>>
       /\ SwitchEventsOn("active") = <<>>
       /\ selector["active"] = last.pre["active"]
       /\ \A i \in 1..Len(last.patches) :
              last.patches[i] = [svc |-> "preview", value |-> NewRSHash]

\* an unsaturated pass that reached reconcileActiveService with every
\* promotion condition met and the preview service switched
C2_Witness ==
    /\ last.op = "bluegreen" /\ last.reached
    /\ rollout.ctx.ready /\ ~rollout.ctx.saturated
    /\ rollout.ctx.skipPause /\ rollout.ctx.completedPause
    /\ rollout.ctx.completedAnalysis
    /\ last.pre["active"] = OlderHash(1)
    /\ Len(PatchesOn("preview")) = 1

\* the older replica sets that are active and carry a revision number
AbortCandidates ==
    {i \in 1..MaxOlder : olderRSs[i].active /\ olderRSs[i].revision > 0}

\* C3: in reconcileActiveService on an aborted rollout, the target handed to
\* switchServiceSelector is the hash of the active older replica set with the
\* highest revision number, whatever the skip-pause and completed-pause rules
\* computed and whatever the active service selected before.
C3_AbortTargetsHighestRevision ==
    (/\ last.op = "active" /\ rollout.ctx.abort
     /\ AbortCandidates # {})
    => \E i \in AbortCandidates :
          /\ \A j \in AbortCandidates : olderRSs[j].revision <= olderRSs[i].revision
          /\ last.target = olderRSs[i].hash
          /\ (last.err = "nil" => selector["active"] = olderRSs[i].hash)

\* revisions {1,2,3} all active, the highest first in the list, the promotion
\* rules asking for the new replica set
C3_Witness ==
    /\ last.op = "active" /\ rollout.ctx.abort
    /\ \A i \in 1..MaxOlder : olderRSs[i].active /\ olderRSs[i].revision > 0
    /\ olderRSs[1].revision = MaxRevision
    /\ rollout.ctx.skipPause /\ rollout.ctx.completedPause
    /\ rollout.ctx.completedAnalysis
    /\ last.pre["active"] = NewRSHash
    /\ last.target = OlderHash(1)
    /\ selector["active"] = OlderHash(1)

\* C4 as stated: a pass that resolves a service name that does not exist
\* records one warning event and one Progressing=False ServiceNotFound
\* condition naming it, returns the error, and issues no Patch.
C4_NotFoundNoPatch ==
    (IsPass /\ last.err = "not found")
    => /\ Len(Warnings) = 1
       /\ Len(last.conditions) = 1
       /\ last.patches = <<>>

\* C4 amended: such a pass records exactly one warning event and one
\* Progressing=False ServiceNotFound condition, both naming the missing
\* service, returns the error, and issues no Patch on the missing service and
\* none after the failed lookup; a blue-green pass issues no Patch at all, a
\* canary pass at most the stable service's, before it looks up the canary
\* service.
C4_NotFoundPropagates ==
    (IsPass /\ last.err = "not found")
    => LET missing == last.lookups[Len(last.lookups)] IN
       /\ Warnings = <<[type |-> "Warning", reason |-> "ServiceNotFound",
                        svc |-> missing, value |-> ""]>>
       /\ last.conditions = <<[type |-> "Progressing", status |-> "False",
                               reason |-> "ServiceNotFound", svc |-> missing]>>
       /\ last.events[Len(last.events)].type = "Warning"
       /\ PatchesOn(missing) = <<>>
       /\ selector[missing] = last.pre[missing]
       /\ (last.op = "bluegreen" => last.patches = <<>>)
       /\ (last.op = "canary" /\ last.patches # <<>>
              => /\ missing = "canary"
                 /\ Len(last.patches) = 1
                 /\ last.patches[1].svc = "stable")

\* a canary pass that switched the stable service and then missed the canary one
C4_Witness ==
    /\ last.op = "canary" /\ last.err = "not found"
    /\ last.lookups = <<"stable", "canary">>
    /\ Len(last.patches) = 1
    /\ Len(Warnings) = 1

\* C9: non-aborted rollout, active service selecting rev-A, new replica set
\* rev-B ready and saturated, pause completed, pre-promotion analysis
\* completed: a pass whose write succeeds ends with the active service
\* selecting rev-B after exactly one Patch and one SwitchService event on it.
C9_PromotionScenario ==
    (/\ last.op = "bluegreen" /\ last.reached /\ last.err = "nil"
     /\ ~rollout.ctx.abort
     /\ rollout.ctx.ready /\ rollout.ctx.saturated
     /\ rollout.ctx.completedPause /\ rollout.ctx.completedAnalysis
     /\ last.pre["active"] = OlderHash(1))
    => /\ selector["active"] = NewRSHash
       /\ last.target = NewRSHash
       /\ PatchesOn("active") = <<[svc |-> "active", value |-> NewRSHash]>>
       /\ SwitchEventsOn("active") =
              <<[type |-> "Normal", reason |-> "SwitchService",
                 svc |-> "active", value |-> NewRSHash]>>

\* the scenario without the skip-pause rule
C9_Witness ==
    /\ last.op = "bluegreen" /\ last.reached /\ last.err = "nil"
    /\ ~rollout.ctx.abort /\ ~rollout.ctx.skipPause
    /\ rollout.ctx.ready /\ rollout.ctx.saturated
    /\ rollout.ctx.completedPause /\ rollout.ctx.completedAnalysis
    /\ last.pre["active"] = OlderHash(1)
    /\ selector["active"] = NewRSHash
    /\ Len(PatchesOn("active")) = 1

\* C10: a pass leaves every service whose selector named a replica set of the
\* rollout naming a replica set of the rollout, and every value it writes to
\* such a service is the hash of one.
C10_SelectorNamesReplicaSet ==
    IsPass
    => /\ \A s \in Services :
              last.pre[s] \in AllRSHashes => selector[s] \in AllRSHashes
       /\ \A i \in 1..Len(last.patches) :
              last.pre[last.patches[i].svc] \in AllRSHashes
                  => last.patches[i].value \in AllRSHashes

\* an aborted pass that moved the active service from the new replica set to
\* the highest older one
C10_Witness ==
    /\ last.op = "bluegreen" /\ rollout.ctx.abort
    /\ last.pre["active"] = NewRSHash
    /\ last.pre["preview"] = OlderHash(1)
    /\ selector["active"] = OlderHash(MaxOlder)
    /\ selector["preview"] = NewRSHash
    /\ Len(last.patches) = 2

\* C11: a blue-green pass over a rollout whose ActiveService name is empty
\* returns the 'missing field ActiveService' error and, whatever the
\* PreviewService name and whether that service exists, records no event,
\* sets no condition and issues no Patch.
C11_MisconfigurationNoSideEffects ==
    (last.op = "bluegreen" /\ rollout.bluegreen.activeService = "")
    => /\ last.err = "missing field ActiveService"
       /\ last.events = <<>>
       /\ last.conditions = <<>>
       /\ last.patches = <<>>

\* C12: a blue-green pass that resolved a configured preview service and whose
\* reconcilePreviewService returned no error leaves the preview service
\* selecting the new replica set's hash, whatever the saturation, pause,
\* promotion and abort state of the rollout.
C12_PreviewUnconditional ==
    (/\ last.op = "bluegreen" /\ last.reached
     /\ rollout.bluegreen.previewService # "")
    => /\ selector["preview"] = NewRSHash
       /\ (last.pre["preview"] # NewRSHash
              => PatchesOn("preview") = <<[svc |-> "preview", value |-> NewRSHash]>>)

\* an aborted, unsaturated rollout with no promotion condition met whose
\* preview service moved from the older revision to the new one
C12_Witness ==
    /\ last.op = "bluegreen" /\ last.reached
    /\ rollout.bluegreen.previewService # ""
    /\ rollout.ctx.abort /\ ~rollout.ctx.ready /\ ~rollout.ctx.saturated
    /\ ~rollout.ctx.skipPause /\ ~rollout.ctx.completedPause
    /\ last.pre["preview"] = OlderHash(1)
    /\ selector["preview"] = NewRSHash

\* C14: a switchServiceSelector call whose Patch fails has issued exactly one
\* Patch, returns the write error, records no event and leaves the value the
\* in-memory selector gives for the unique-hash key as it was; when the same
\* call follows, it issues the Patch again.
C14_PatchFailure ==
    /\ (last.op = "switch" /\ last.err # "nil")
       => /\ last.err = "patch failed"
          /\ last.patches = <<[svc |-> last.svc, value |-> last.target]>>
          /\ last.events = <<>>
          /\ SelectorValue(selector[last.svc]) = SelectorValue(last.pre[last.svc])
          /\ HasKey(selector[last.svc]) = HasKey(last.pre[last.svc])
    /\ (/\ last.op = "switch" /\ prev.op = "switch"
        /\ prev.err # "nil"
        /\ prev.svc = last.svc /\ prev.target = last.target)
       => last.patches = <<[svc |-> last.svc, value |-> last.target]>>

\* a failed switch from the older revision to the new one, tried again and
\* failing again
C14_Witness ==
    /\ last.op = "switch" /\ prev.op = "switch"
    /\ prev.svc = last.svc /\ prev.target = last.target
    /\ prev.err = "patch failed" /\ last.err = "patch failed"
    /\ prev.pre[prev.svc] = OlderHash(1) /\ last.target = NewRSHash
    /\ selector[last.svc] = OlderHash(1)
    /\ Len(prev.patches) = 1 /\ Len(last.patches) = 1

\* C15: a blue-green pass that reaches reconcileActiveService with the new
\* replica set ready and saturated, the skip-pause rule and the completed-pause
\* rule not firing and the rollout not aborted issues no Patch on the active
\* service and leaves its selector as it was, whatever that selector was.
C15_DefaultTargetNoChange ==
    (/\ last.op = "bluegreen" /\ last.reached
     /\ rollout.ctx.ready /\ rollout.ctx.saturated
     /\ ~rollout.ctx.skipPause
     /\ ~(rollout.ctx.completedPause /\ rollout.ctx.completedAnalysis)
     /\ ~rollout.ctx.abort)
    => /\ PatchesOn("active") = <<>>
       /\ SelectorValue(selector["active"]) = SelectorValue(last.pre["active"])
       /\ HasKey(selector["active"]) = HasKey(last.pre["active"])

\* the roles of a canary rollout: service name, replica set hash
CanaryRoleOf(svc) ==
    IF svc = "stable"
    THEN [name |-> rollout.canary.stableService, rs |-> rollout.roles.stableRS]
    ELSE [name |-> rollout.canary.canaryService, rs |-> rollout.roles.newRS]

\* C16: after a reconcileStableAndCanaryService pass of a canary rollout, in
\* any pause, saturation or abort state: if the pass returned no error, each
\* role with a service name and a replica set has its service selecting that
\* replica set's hash; a role without a service name or without a replica set
\* caused no lookup and no Patch; a service that already selected its role's
\* hash received no Patch.
C16_CanarySync ==
    (last.op = "canary" /\ rollout.strategy = "Canary")
    => \A svc \in CanaryServices :
          LET role == CanaryRoleOf(svc) IN
          /\ (last.err = "nil" /\ role.name # "" /\ role.rs # NoRS)
                => selector[svc] = role.rs
          /\ (role.name = "" \/ role.rs = NoRS)
                => /\ \A i \in 1..Len(last.lookups) : last.lookups[i] # svc
                   /\ PatchesOn(svc) = <<>>
                   /\ selector[svc] = last.pre[svc]
          /\ last.pre[svc] = role.rs
                => PatchesOn(svc) = <<>> /\ selector[svc] = last.pre[svc]

\* an aborted, unsaturated canary rollout whose two services were swapped
C16_Witness ==
    /\ last.op = "canary" /\ rollout.strategy = "Canary" /\ last.err = "nil"
    /\ rollout.ctx.abort /\ ~rollout.ctx.saturated
    /\ rollout.roles.stableRS = OlderHash(1) /\ rollout.roles.newRS = NewRSHash
    /\ last.pre["stable"] = NewRSHash /\ last.pre["canary"] = OlderHash(1)
    /\ selector["stable"] = OlderHash(1) /\ selector["canary"] = NewRSHash
    /\ Len(last.patches) = 2

\* C18: a reconcileActiveService pass on an aborted rollout never issues a
\* Patch that sets the active service to the new replica set's hash, whatever
\* the older replica sets are: none active, or none with a revision number.
C18_AbortNeverPromotes ==
    (last.op = "active" /\ rollout.ctx.abort)
    => /\ \A i \in 1..Len(last.patches) : last.patches[i].value # NewRSHash
       /\ (last.pre["active"] # NewRSHash => selector["active"] # NewRSHash)

\* C20: when a blue-green pass or a canary pass that returned no error is
\* followed by a pass over the same rollout, replica sets and services, the
\* second pass issues no Patch, records no event and leaves every selector as
\* it was.
C20_PassConverges ==
    (IsPass /\ prev.op = last.op /\ prev.err = "nil")
    => /\ last.patches = <<>>
       /\ last.events = <<>>
       /\ last.err = "nil"
       /\ selector = last.pre

\* a blue-green pass that switched both services, followed by a pass
C20_Witness ==
    /\ last.op = "bluegreen" /\ prev.op = "bluegreen" /\ prev.err = "nil"
    /\ prev.reached /\ last.reached
    /\ Len(prev.patches) = 2
    /\ prev.pre["active"] = OlderHash(1)
    /\ selector["active"] = NewRSHash /\ selector["preview"] = NewRSHash
    /\ last.patches = <<>>

----------------------------------------------------------------------------
(* Claims about the Datadog provider *)

Terminal(m) ==
    /\ m.phase \in {"Successful", "Failed", "Inconclusive", "Error"}
    /\ m.finishedAt # NoTime

Suspended(m) ==
    /\ m.phase = "Running"
    /\ m.finishedAt = NoTime
    /\ m.resumeAt # NoTime /\ m.startedAt # NoTime
    /\ m.resumeAt[1] > m.startedAt[1]

Decided(a) == a.phase \in {"Successful", "Failed", "Error"} /\ a.finished

\* C5: in datadog.go, a query that returns no sample gives phase
\* Inconclusive, one whose samples hold a NaN gives Inconclusive, and one
\* whose samples are all numbers gives the evaluator's Successful or Failed
\* as Phase, with FinishedAt set.
C5_Classification ==
    impl = "current"
    => \A i \in 1..Len(attempts) :
          LET a == attempts[i] IN
          /\ a.class \in {"empty", "NaN"} => a.phase = "Inconclusive"
          /\ (a.class = "numeric" /\ a.verdict \in {"Successful", "Failed"})
                => a.phase = a.verdict /\ a.finished

\* C6: every Measurement that Run or Resume of datadog.go returns is
\* terminal with FinishedAt set, or Running with FinishedAt nil and a
\* ResumeAt later than StartedAt.
C6_MeasurementShape ==
    (impl = "current" /\ call \in {"Run", "Resume"} /\ outcome = "returned")
    => Terminal(measurement) \/ Suspended(measurement)

AllEmpty == \A i \in 1..Len(attempts) : attempts[i].class = "empty"

\* C7: against a backend that only returns empty data, one Run call and one
\* Resume call issue no more than the first query and RetryLimit further
\* ones.
C7_RetryBound ==
    (call \in {"Run", "Resume"} /\ AllEmpty)
    => Len(attempts) <= 1 + RetryLimit

\* a Resume call that queried, found nothing, queried again and returned
C7_Witness ==
    /\ call = "Resume" /\ outcome = "returned" /\ AllEmpty
    /\ Len(attempts) = 2
    /\ retries = 0

\* C8: within one call of datadog.go's Run or Resume, a query that produced
\* a Successful, Failed or Error Measurement with FinishedAt set is the last
\* query of the call, and its Measurement is the one returned.
C8_NoRetryAfterTerminal ==
    (impl = "current" /\ call \in {"Run", "Resume"})
    => \A i \in 1..Len(attempts) :
          Decided(attempts[i])
              => /\ i = Len(attempts)
                 /\ outcome = "returned" => measurement.phase = attempts[i].phase

\* C13: a Terminate call, between calls or while Resume is in its loop, on a
\* Measurement in any phase, issues no query and returns the Measurement it
\* was given with Phase, Value, StartedAt, FinishedAt and ResumeAt unchanged;
\* the Measurement the provider's caller holds is the same as before.
C13_TerminateNoOp ==
    terminated.during # "none"
    => /\ terminated.queries = 0
       /\ terminated.returned = terminated.given
       /\ measurement = terminated.given
       /\ (terminated.during = "idle" => call = "Terminate" /\ attempts = <<>>)

\* Terminate on a Running Measurement while Resume is in flight
C13_Witness ==
    /\ terminated.during = "resume"
    /\ terminated.given.phase = "Running"
    /\ terminated.given.resumeAt # NoTime
    /\ terminated.returned.phase = "Running"

\* C17: a Resume call against a backend whose every query returns no data
\* returns only after the first query and RetryLimit further ones; it does
\* not return after the first iteration of its loop.
C17_ResumeRunsAllRetries ==
    (call = "Resume" /\ outcome = "returned" /\ AllEmpty)
    => /\ Len(attempts) = 1 + RetryLimit
       /\ retries = RetryLimit

\* C19: when the caller resumes a Running Measurement once its ResumeAt has
\* passed and the backend has data from some time on, a measurement started
\* by Run eventually is Successful, Failed, Inconclusive or Error with
\* FinishedAt set.
C19_EventuallyTerminal ==
    [](call = "Run" => <>Terminal(measurement))

====
